---- MODULE Spec2Model ----
(***************************************************************************)
(* querytyper: the expression-capture engine of src/querytyper/mongo.      *)
(*                                                                         *)
(* Python objects are modelled with their identity where the code relies   *)
(* on it: every dict that is, or once was, MongoQuery._dict lives on a     *)
(* heap and is reached through a reference, because MongoQuery.__init__    *)
(* hands the buffer OBJECT to the instance and QueryField.__eq__ and       *)
(* QueryCondition.__and__ mutate the buffer object in place.  Values       *)
(* stored under a key are never mutated in place by the code (a fold       *)
(* builds a new list), so they are plain values.                           *)
(***************************************************************************)
EXTENDS Integers, Sequences, FiniteSets, TLC

VARIABLES
    heap,     \* dict objects: id -> mapping (key -> value)
    buf,      \* MongoQuery._dict: the id of the shared accumulation buffer
    queries,  \* the MongoQuery instances the caller holds, by variable
    conds,    \* the QueryConditions the caller holds, newest first
    nconds,   \* number of QueryConditions created so far
    nor,      \* number of | operations so far
    cycle,    \* history of the expression accumulated since the last reset
    last,     \* the operation executed last, with its arguments and result
    failed,   \* MongoQuery instances whose __init__ raised, not yet destroyed
    threads,  \* the threads that build a query each: their position and locals
    meta      \* the metaclasses: the attributes set on them, the classes made

vars == <<heap, buf, queries, conds, nconds, nor, cycle, last, failed, threads, meta>>

-----------------------------------------------------------------------------
(* Bounds *)

\* QueryConditions created in one behaviour (by a comparison, exists or
\* regex_query)
MaxConds == 3
\* | operations in one behaviour
MaxOr == 2
\* MongoQuery instances whose __init__ raised and that are not yet destroyed
MaxFailed == 1
\* class statements with one of the metaclasses that succeed in one behaviour
MaxBind == 2

-----------------------------------------------------------------------------
(* Python values.  A value is a record whose single field names its type.  *)

Null == [null |-> TRUE]
PyStr(s) == [str |-> s]
PyInt(i) == [int |-> i]
PyBool(b) == [bool |-> b]
PyList(s) == [list |-> s]
PyDict(m) == [dict |-> m]
\* a reference to a dict object of the heap
Ref(i) == [ref |-> i]

IsStr(v) == "str" \in DOMAIN v
IsList(v) == "list" \in DOMAIN v
IsDict(v) == "dict" \in DOMAIN v
IsRef(v) == "ref" \in DOMAIN v

\* {}
EmptyDict == [k \in {} |-> Null]

\* d[k] = v
SetItem(d, k, v) == [x \in DOMAIN d \cup {k} |-> IF x = k THEN v ELSE d[x]]

\* d.get(k): None when k is missing
DictGet(d, k) == IF k \in DOMAIN d THEN d[k] ELSE Null

\* d.update(other): the keys of other are written over those of d
DictUpdate(d, other) ==
    [x \in DOMAIN d \cup DOMAIN other |-> IF x \in DOMAIN other THEN other[x] ELSE d[x]]

-----------------------------------------------------------------------------
(* The schema and the inputs of the operations *)

\* QueryModel's fields used by the tests
Fields == {"str_field", "int_field"}
\* operands of == and of the membership test, by the field's declared type
\* (a str field may be compared with None, as Dummy.optional_str is)
Operands(f) == IF f = "str_field" THEN {PyStr("a"), PyStr("b"), Null} ELSE {PyInt(1)}
\* the declared type of a field, which its QueryField keeps as field_type
FieldType(f) == IF f = "str_field" THEN "str" ELSE "int"
\* the fields >, >=, <, <= are applied to, and their operands
OrdFields == {"int_field"}
OrdOperands == {PyInt(1)}
\* the fields the membership test is applied to
InFields == {"str_field"}
\* the variables in which the caller holds MongoQuery instances
QuerySlots == {1, 2}
\* the QueryConditions the caller holds: the newest and the one before
CondSlots == {1, 2}
HeapIds == 1 .. 12

-----------------------------------------------------------------------------
(* The heap of dict objects *)

\* the elements of a sequence, as a set
Range(sq) == { sq[i] : i \in DOMAIN sq }

RECURSIVE KeySeq(_)
\* iterating a dict yields its keys (an order is fixed; the dicts the code
\* iterates have one key)
KeySeq(d) ==
    IF DOMAIN d = {} THEN <<>>
    ELSE LET k == CHOOSE x \in DOMAIN d : TRUE
         IN  <<PyStr(k)>> \o KeySeq([x \in DOMAIN d \ {k} |-> d[x]])

RECURSIVE RefSeq(_, _)
\* the dict objects a dict refers to ({"$or": [left, right]}), in order
RefSeq(d, keys) ==
    IF keys = <<>> THEN <<>>
    ELSE LET v == d[Head(keys).str]
             here == IF IsList(v)
                     THEN [i \in DOMAIN SelectSeq(v.list, IsRef) |-> SelectSeq(v.list, IsRef)[i].ref]
                     ELSE <<>>
         IN  here \o RefSeq(d, Tail(keys))

RefsOf(d) == Range(RefSeq(d, KeySeq(d)))

RECURSIVE Visit(_, _, _)
\* the objects reachable from the references in todo, each once, in the
\* order they are met
Visit(h, todo, seen) ==
    IF todo = <<>> THEN seen
    ELSE LET i == Head(todo)
         IN  IF i \in Range(seen) THEN Visit(h, Tail(todo), seen)
             ELSE Visit(h, Tail(todo) \o RefSeq(h[i], KeySeq(h[i])), Append(seen, i))

RECURSIVE Held(_, _)
\* the dicts of the instances the caller holds in variables 1 .. n
Held(qs, n) ==
    IF n = 0 THEN <<>>
    ELSE Held(qs, n - 1) \o (IF qs[n].alive THEN <<qs[n].ref>> ELSE <<>>)

\* what the class and the caller hold: the buffer and every instance's _dict
Roots(b, qs) == <<b>> \o Held(qs, Cardinality(QuerySlots))

\* Reference counting frees a dict as soon as nothing refers to it.  The
\* identities of the live objects carry no meaning beyond telling the objects
\* apart, so they are renumbered in the order the objects are met from the
\* buffer and the caller's variables: two heaps that differ by a renaming of
\* the objects are one state.
Renumber(h, b, qs, order) ==
    LET pos == [i \in Range(order) |-> CHOOSE n \in DOMAIN order : order[n] = i]
        move(v) == IF IsList(v)
                   THEN PyList([j \in DOMAIN v.list |->
                                   IF IsRef(v.list[j]) THEN Ref(pos[v.list[j].ref])
                                   ELSE v.list[j]])
                   ELSE v
    IN  [heap |-> [n \in HeapIds |->
                      IF n \in DOMAIN order
                      THEN [k \in DOMAIN h[order[n]] |-> move(h[order[n]][k])]
                      ELSE EmptyDict],
         buf |-> pos[b],
         queries |-> [q \in QuerySlots |->
                         IF qs[q].alive THEN [qs[q] EXCEPT !.ref = pos[@]] ELSE qs[q]]]

Collect(st) ==
    CHOOSE r \in { Renumber(st.heap, st.buf, st.queries, order) :
                   order \in {Visit(st.heap, Roots(st.buf, st.queries), <<>>)} } : TRUE

\* the identity of the next dict object created: one that nothing holds
NewId(h, b, qs) ==
    LET used == Range(Roots(b, qs)) \cup UNION { RefsOf(h[i]) : i \in HeapIds }
    IN  1 + CHOOSE i \in used : \A j \in used : j <= i

RECURSIVE Resolve(_, _)
RECURSIVE ResolveVal(_, _)
\* the content of the dict object id, references followed
Resolve(h, id) == [k \in DOMAIN h[id] |-> ResolveVal(h, h[id][k])]
ResolveVal(h, v) ==
    IF IsRef(v) THEN PyDict(Resolve(h, v.ref))
    ELSE IF IsList(v) THEN PyList([i \in DOMAIN v.list |-> ResolveVal(h, v.list[i])])
    ELSE v

\* MongoQuery._dict, as a mapping
Buffer == heap[buf]

\* query._dict of the instance held in variable q, as a mapping
Content(q) == Resolve(heap, queries[q].ref)

NoQuery == [alive |-> FALSE, ref |-> 0]
NoCond == [src |-> "none", content |-> EmptyDict, fresh |-> FALSE]

\* the caller keeps the newest QueryCondition and the one before it
Keep(cs, c) == [i \in CondSlots |-> IF i = 1 THEN c ELSE cs[1]]

-----------------------------------------------------------------------------
(* The expression accumulated since the buffer was last reset (history) *)

\* regs[f]: the comparisons on f, in order, each [op, v]: the operator and
\* its operand;
\* tested: the list of the membership test, when the expression is one;
\* shape: "empty"; "cmps": comparisons only; "anded": comparisons, some of
\* them joined by &; "in": one membership test; "shared": a QueryCondition
\* made before the reset took part in an &; "mixed": anything else.
CycleInit ==
    [regs |-> [f \in Fields |-> <<>>], tested |-> <<>>, shape |-> "empty"]

Stale(cs) == [i \in CondSlots |-> [cs[i] EXCEPT !.fresh = FALSE]]

-----------------------------------------------------------------------------
(* QueryField *)

\* isinstance(v, Iterable): lists, dicts and strings are; numbers are not
IsIterable(v) == IsList(v) \/ IsDict(v) \/ IsStr(v)

\* [*field]
Unpack(v) == IF IsList(v) THEN v.list ELSE KeySeq(v.dict)

\* the body of QueryField.__eq__ on the buffer dict
EqDict(d, name, other) ==
    LET field == DictGet(d, name)
    IN  IF field = Null
        THEN SetItem(d, name, other)
        ELSE SetItem(d, name,
                     IF IsIterable(field) /\ ~IsStr(field)
                     THEN PyList(Unpack(field) \o <<other>>)
                     ELSE PyList(<<field, other>>))

\* an __eq__ that returns the entry of its own field only
QueryFieldEqOwnField(f, other, how) ==
    /\ nconds < MaxConds
    /\ heap' = [heap EXCEPT ![buf] = EqDict(heap[buf], f, other)]
    /\ conds' = Keep(conds, [src |-> "cmp", content |-> (f :> heap'[buf][f]), fresh |-> TRUE])
    /\ nconds' = nconds + 1
    /\ cycle' = [cycle EXCEPT !.regs[f] = Append(@, how),
                              !.shape = IF @ \in {"empty", "cmps"} THEN "cmps"
                                        ELSE IF @ \in {"anded", "shared"} THEN @
                                        ELSE "mixed"]
    /\ last' = [op |-> "cmp", f |-> f, ret |-> (f :> heap'[buf][f])]
    /\ UNCHANGED <<buf, queries, nor, failed, threads, meta>>

\* QueryField.__eq__: self == other, reached through the comparison how
QueryFieldEq(f, other, how) ==
    /\ nconds < MaxConds
    /\ heap' = [heap EXCEPT ![buf] = EqDict(heap[buf], f, other)]
    /\ conds' = Keep(conds, [src |-> "cmp", content |-> heap'[buf], fresh |-> TRUE])
    /\ nconds' = nconds + 1
    /\ cycle' = [cycle EXCEPT !.regs[f] = Append(@, how),
                              !.shape = IF @ \in {"empty", "cmps"} THEN "cmps"
                                        ELSE IF @ \in {"anded", "shared"} THEN @
                                        ELSE "mixed"]
    /\ last' = [op |-> "cmp", f |-> f, ret |-> heap'[buf]]
    /\ UNCHANGED <<buf, queries, nor, failed, threads, meta>>

Eq(f, v) == QueryFieldEq(f, v, [op |-> "==", v |-> v])
Gt(f, v) == QueryFieldEq(f, PyDict("$gt" :> v), [op |-> ">", v |-> v])
\* >= written with the key of a misspelt operator
GeMisspelt(f, v) == QueryFieldEq(f, PyDict("$ge" :> v), [op |-> ">=", v |-> v])
Ge(f, v) == QueryFieldEq(f, PyDict("$gte" :> v), [op |-> ">=", v |-> v])
Lt(f, v) == QueryFieldEq(f, PyDict("$lt" :> v), [op |-> "<", v |-> v])
Le(f, v) == QueryFieldEq(f, PyDict("$lte" :> v), [op |-> "<=", v |-> v])

\* the truth value of a dict that does not overload __bool__
CondBoolOfDict(c) == DOMAIN c # {}
\* QueryCondition.__bool__
CondBool(c) == FALSE

RECURSIVE Contains(_, _, _, _)
\* `field in [v1, ..., vn]`: the list compares its elements with the field,
\* one after the other, until a comparison is true.  The result is the
\* buffer, the number of elements compared and the answer.
Contains(d, f, vals, i) ==
    IF i > Len(vals) THEN [dict |-> d, n |-> Len(vals), found |-> FALSE]
    ELSE LET d2 == EqDict(d, f, vals[i])
         IN  IF CondBool(d2) THEN [dict |-> d2, n |-> i, found |-> TRUE]
             ELSE Contains(d2, f, vals, i + 1)

In(f, vals) ==
    /\ nconds + Len(vals) <= MaxConds
    /\ LET r == Contains(heap[buf], f, vals, 1)
       IN  /\ heap' = [heap EXCEPT ![buf] = r.dict]
           /\ nconds' = nconds + r.n
           /\ cycle' = [cycle EXCEPT
                           !.regs[f] = @ \o [i \in 1 .. r.n |-> [op |-> "==", v |-> vals[i]]],
                           !.tested = IF cycle.shape = "empty" THEN vals ELSE <<>>,
                           !.shape = IF @ = "empty" THEN "in"
                                     ELSE IF @ = "shared" THEN @ ELSE "mixed"]
           /\ last' = [op |-> "in", f |-> f, n |-> r.n, ret |-> PyBool(r.found)]
    /\ UNCHANGED <<buf, queries, conds, nor, failed, threads, meta>>

\* the special methods the class QueryField defines
QueryFieldMethods ==
    {"__init__", "__get__", "__eq__", "__gt__", "__ge__", "__lt__", "__le__"}

\* `operand in field` calls __contains__; without it Python iterates the
\* right operand with __iter__ or __getitem__; without these it raises
\* TypeError (argument of type 'QueryField' is not iterable)
ContainsRaises ==
    {"__contains__", "__iter__", "__getitem__"} \cap QueryFieldMethods = {}

\* the operands of `operand in field`
TestedOperands == {PyStr("test"), PyInt(1)}

\* `operand in field`, the field a QueryField
QueryFieldContains(f, operand) ==
    /\ ContainsRaises
    /\ last' = [op |-> "contains", f |-> f, operand |-> operand, error |-> "TypeError"]
    /\ UNCHANGED <<heap, buf, queries, conds, nconds, nor, cycle, failed, threads, meta>>

-----------------------------------------------------------------------------
(* QueryCondition *)

\* the operands of & and the arguments of MongoQuery: a QueryCondition the
\* caller holds, or a boolean
IsCondArg(o) == "c" \in DOMAIN o
CondArgs == { [c |-> i] : i \in { j \in CondSlots : conds[j].src # "none" } }
BoolArgs == { [b |-> TRUE], [b |-> FALSE] }

\* the body of __and__ and of __rand__ on the buffer dict
AndDict(d, o) == IF IsCondArg(o) THEN DictUpdate(d, conds[o.c].content) ELSE d

\* how an & of the condition in slot c with o changes the history
AndCycle(c, o) ==
    LET used == {conds[c]} \cup (IF IsCondArg(o) THEN {conds[o.c]} ELSE {})
    IN  [cycle EXCEPT
            !.tested = <<>>,
            !.shape = IF @ = "shared" \/ \E u \in used : ~u.fresh THEN "shared"
                      ELSE IF @ \in {"cmps", "anded"} /\ IsCondArg(o)
                              /\ \A u \in used : u.src = "cmp"
                      THEN "anded"
                      ELSE "mixed"]

\* an & that merges its left operand as well
AndMergesSelf(c, o) ==
    /\ conds[c].src # "none"
    /\ heap' = [heap EXCEPT ![buf] = AndDict(DictUpdate(heap[buf], conds[c].content), o)]
    /\ cycle' = AndCycle(c, o)
    /\ last' = [op |-> "and", c |-> c, o |-> o, ret |-> conds[c].content]
    /\ UNCHANGED <<buf, queries, conds, nconds, nor, failed, threads, meta>>

\* QueryCondition.__and__: conds[c] & o
And(c, o) ==
    /\ conds[c].src # "none"
    /\ heap' = [heap EXCEPT ![buf] = AndDict(heap[buf], o)]
    /\ cycle' = AndCycle(c, o)
    /\ last' = [op |-> "and", c |-> c, o |-> o, ret |-> conds[c].content]
    /\ UNCHANGED <<buf, queries, conds, nconds, nor, failed, threads, meta>>

\* QueryCondition.__rand__: o & conds[c]
Rand(c, o) ==
    /\ conds[c].src # "none"
    /\ heap' = [heap EXCEPT ![buf] = AndDict(heap[buf], o)]
    /\ cycle' = AndCycle(c, o)
    /\ last' = [op |-> "rand", c |-> c, o |-> o, ret |-> conds[c].content]
    /\ UNCHANGED <<buf, queries, conds, nconds, nor, failed, threads, meta>>

\* bool(conds[c])
Bool(c) ==
    /\ conds[c].src # "none"
    /\ last' = [op |-> "bool", c |-> c, ret |-> PyBool(CondBool(conds[c].content))]
    /\ UNCHANGED <<heap, buf, queries, conds, nconds, nor, cycle, failed, threads, meta>>

-----------------------------------------------------------------------------
(* exists, regex_query *)

\* the field argument: a QueryField, a field name, or something else
IsQueryField(a) == "field" \in DOMAIN a
FieldArgs == {[field |-> "str_field"], PyStr("custom_field"), PyInt(1)}
RegexArgs == {[field |-> "str_field"], PyStr("custom_field")}
Patterns == {"^a"}

\* exists raises TypeError for anything but a QueryField or a str
ExistsRaises(a) == ~IsQueryField(a) /\ ~IsStr(a)

\* the QueryCondition exists returns
ExistsResult(a) ==
    IF IsQueryField(a) THEN (a.field :> PyDict("$exists" :> PyBool(TRUE)))
    ELSE (a.str :> PyDict("$exists" :> PyBool(TRUE)))

\* the QueryCondition regex_query returns
RegexResult(a, pattern) ==
    IF IsQueryField(a) THEN (a.field :> PyDict("$regex" :> PyStr(pattern)))
    ELSE (a.str :> PyDict("$regex" :> PyStr(pattern)))

\* an exists that registers its condition the way a comparison does
ExistsThroughBuffer(a) ==
    /\ ~ExistsRaises(a)
    /\ nconds < MaxConds
    /\ nconds' = nconds + 1
    /\ heap' = [heap EXCEPT ![buf] = DictUpdate(heap[buf], ExistsResult(a))]
    /\ last' = [op |-> "exists", a |-> a, ret |-> heap'[buf]]
    /\ conds' = Keep(conds, [src |-> "exists", content |-> heap'[buf], fresh |-> TRUE])
    /\ UNCHANGED <<buf, queries, nor, cycle, failed, threads, meta>>

Exists(a) ==
    /\ ExistsRaises(a) \/ nconds < MaxConds
    /\ nconds' = IF ExistsRaises(a) THEN nconds ELSE nconds + 1
    /\ IF ExistsRaises(a)
       THEN /\ last' = [op |-> "exists", a |-> a, error |-> "TypeError"]
            /\ conds' = conds
       ELSE /\ last' = [op |-> "exists", a |-> a, ret |-> ExistsResult(a)]
            /\ conds' = Keep(conds, [src |-> "exists", content |-> ExistsResult(a),
                                     fresh |-> TRUE])
    /\ UNCHANGED <<heap, buf, queries, nor, cycle, failed, threads, meta>>

RegexQuery(a, pattern) ==
    /\ nconds < MaxConds
    /\ nconds' = nconds + 1
    /\ last' = [op |-> "regex", a |-> a, pattern |-> pattern, ret |-> RegexResult(a, pattern)]
    /\ conds' = Keep(conds, [src |-> "regex", content |-> RegexResult(a, pattern),
                             fresh |-> TRUE])
    /\ UNCHANGED <<heap, buf, queries, nor, cycle, failed, threads, meta>>

-----------------------------------------------------------------------------
(* MongoQuery *)

\* the argument lists of MongoQuery(*args) that pass the isinstance check
ArgLists ==
    { <<a>> : a \in CondArgs } \cup { <<a, b>> : a \in CondArgs, b \in CondArgs }

\* arguments that are neither a QueryCondition nor a bool
BadArgs == {PyStr("random string"), PyInt(1)}

\* the argument lists of MongoQuery(*args), valid or not, of at most two
\* arguments: the newest QueryCondition, True, a str, an int
AnyArgLists ==
    LET any == (CondArgs \cap {[c |-> 1]}) \cup {[b |-> TRUE]} \cup BadArgs
    IN  {<<>>} \cup { <<a>> : a \in any } \cup { <<a, b>> : a \in any, b \in any }

\* isinstance(arg, (QueryCondition, bool))
IsValidArg(a) == IsCondArg(a) \/ "b" \in DOMAIN a

\* an argument check that looks at the first argument only
InitRaisesOnFirst(args) == args # <<>> /\ ~IsValidArg(args[1])

\* the loop of MongoQuery.__init__ over its arguments raises TypeError at
\* the first one that fails the isinstance check
InitRaises(args) == \E i \in DOMAIN args : ~IsValidArg(args[i])

\* a reset that leaves the class with the dict it had
NewBufferKept(st) == st

\* MongoQuery._dict = {}
NewBuffer(st) ==
    CHOOSE r \in { [st EXCEPT !.heap[new] = EmptyDict, !.buf = new] :
                   new \in {NewId(st.heap, st.buf, st.queries)} } : TRUE

\* an __init__ that leaves the class with the dict it gave to the instance
InitDictsShared(st, q) ==
    [st EXCEPT !.queries[q] = [alive |-> TRUE, ref |-> st.buf]]

\* the body of MongoQuery.__init__ after the argument check: the instance
\* takes the buffer object itself, the class gets a new dict
InitDicts(st, q) ==
    NewBuffer([st EXCEPT !.queries[q] = [alive |-> TRUE, ref |-> st.buf]])

\* the body of MongoQuery.__del__: self._dict = {} and MongoQuery._dict = {}
DelDicts(st, q) ==
    NewBuffer([st EXCEPT !.queries[q] = NoQuery])

\* an __or__ that lists the right operand first
OrDictsSwapped(st, a, b) ==
    CHOOSE r \in { [st EXCEPT !.heap[new] = ("$or" :> PyList(<<Ref(st.queries[b].ref),
                                                                 Ref(st.queries[a].ref)>>)),
                              !.queries[a].ref = new] :
                   new \in {NewId(st.heap, st.buf, st.queries)} } : TRUE

\* the body of MongoQuery.__or__: self._dict becomes a new dict that refers
\* to the two operands' dicts
OrDicts(st, a, b) ==
    CHOOSE r \in { [st EXCEPT !.heap[new] = ("$or" :> PyList(<<Ref(st.queries[a].ref),
                                                                 Ref(st.queries[b].ref)>>)),
                              !.queries[a].ref = new] :
                   new \in {NewId(st.heap, st.buf, st.queries)} } : TRUE

Dicts == [heap |-> heap, buf |-> buf, queries |-> queries]

\* room for the dicts one operation creates
HasRoom == NewId(heap, buf, queries) + 1 \in HeapIds

\* MongoQuery(*args), the new instance bound to the caller's variable q.
\* When the argument check raises, nothing is bound and the instance stays
\* referenced by the exception's traceback.  Otherwise the instance q held
\* before, if any, is destroyed once the new one is bound, and its __del__
\* runs.
MongoQueryInit(q, args) ==
    IF InitRaises(args)
    THEN /\ failed < MaxFailed
         /\ failed' = failed + 1
         /\ last' = [op |-> "raise", q |-> q, args |-> args, error |-> "TypeError"]
         /\ UNCHANGED <<heap, buf, queries, conds, nconds, nor, cycle, threads, meta>>
    ELSE /\ HasRoom
         /\ \E next \in { Collect(IF queries[q].alive THEN NewBuffer(InitDicts(Dicts, q))
                                                        ELSE InitDicts(Dicts, q)) } :
             /\ heap' = next.heap
             /\ buf' = next.buf
             /\ queries' = next.queries
             /\ conds' = Stale(conds)
             /\ cycle' = CycleInit
             /\ last' = [op |-> "init", q |-> q, args |-> args, cycle |-> cycle]
             /\ UNCHANGED <<nconds, nor, failed, threads, meta>>

\* the exception of a failed MongoQuery(*args) is released: the instance it
\* kept alive is destroyed and its __del__ runs
MongoQueryDelFailed ==
    /\ failed > 0
    /\ HasRoom
    /\ \E next \in { Collect(NewBuffer(Dicts)) } :
        /\ heap' = next.heap
        /\ buf' = next.buf
        /\ queries' = next.queries
        /\ conds' = Stale(conds)
        /\ cycle' = CycleInit
        /\ failed' = failed - 1
        /\ last' = [op |-> "del", failed |-> TRUE]
        /\ UNCHANGED <<nconds, nor, threads, meta>>

\* del q: the caller drops the instance held in variable q; its __del__ runs
MongoQueryDel(q) ==
    /\ queries[q].alive
    /\ HasRoom
    /\ \E next \in { Collect(DelDicts(Dicts, q)) } :
        /\ heap' = next.heap
        /\ buf' = next.buf
        /\ queries' = next.queries
        /\ conds' = Stale(conds)
        /\ cycle' = CycleInit
        /\ last' = [op |-> "del", q |-> q]
        /\ UNCHANGED <<nconds, nor, failed, threads, meta>>

\* queries[a] | queries[b]; the result is the instance held in last.ret
MongoQueryOr(a, b) ==
    /\ queries[a].alive /\ queries[b].alive
    /\ nor < MaxOr
    /\ HasRoom
    /\ \E next \in { Collect(OrDicts(Dicts, a, b)) } :
        /\ heap' = next.heap
        /\ buf' = next.buf
        /\ queries' = next.queries
        /\ nor' = nor + 1
        /\ last' = [op |-> "or", a |-> a, b |-> b, ret |-> a,
                    left |-> Content(a), right |-> Content(b)]
        /\ UNCHANGED <<conds, nconds, cycle, failed, threads, meta>>

-----------------------------------------------------------------------------
(* Threads *)

\* Two threads run MongoQuery(QueryModel.<field> == <operand>) each, on
\* different fields, and keep the query in queries[t].  A thread switch can
\* happen between any two statements of __eq__ and of __init__.
Threads == {1, 2}
ThreadField(t) == IF t = 1 THEN "str_field" ELSE "int_field"
ThreadOperands(t) == Operands(ThreadField(t)) \ {Null}
Other(t) == CHOOSE u \in Threads : u # t

\* pc[t]: the statement thread t runs next; other[t]: its operand; dict[t]
\* and field[t]: the locals _dict and field of __eq__; serial: no thread has
\* run a statement while the other was between its first and its last
ThreadsInit ==
    [pc |-> [t \in Threads |-> "start"],
     other |-> [t \in Threads |-> Null],
     dict |-> [t \in Threads |-> 0],
     field |-> [t \in Threads |-> Null],
     serial |-> TRUE]

\* thread t moves to pc with the locals loc
Step(t, pc, loc) ==
    [loc EXCEPT !.pc[t] = pc,
                !.serial = @ /\ threads.pc[Other(t)] \in {"start", "done"}]

\* the assignment of __eq__ to _dict[self.name], field read before
EqStore(d, name, field, other) ==
    IF field = Null
    THEN SetItem(d, name, other)
    ELSE SetItem(d, name,
                 IF IsIterable(field) /\ ~IsStr(field)
                 THEN PyList(Unpack(field) \o <<other>>)
                 ELSE PyList(<<field, other>>))

\* _dict = MongoQuery._dict
ThreadEqLoad(t) ==
    /\ threads.pc[t] = "start"
    /\ \E v \in ThreadOperands(t) :
        /\ threads' = Step(t, "get", [threads EXCEPT !.other[t] = v, !.dict[t] = buf])
        /\ last' = [op |-> "thread", t |-> t, line |-> 108]
    /\ UNCHANGED <<heap, buf, queries, conds, nconds, nor, cycle, failed, meta>>

\* field = _dict.get(self.name)
ThreadEqGet(t) ==
    /\ threads.pc[t] = "get"
    /\ threads' = Step(t, "set", [threads EXCEPT
                                      !.field[t] = DictGet(heap[threads.dict[t]], ThreadField(t))])
    /\ last' = [op |-> "thread", t |-> t, line |-> 109]
    /\ UNCHANGED <<heap, buf, queries, conds, nconds, nor, cycle, failed, meta>>

\* _dict[self.name] = other, or the fold
ThreadEqSet(t) ==
    /\ threads.pc[t] = "set"
    /\ heap' = [heap EXCEPT ![threads.dict[t]] =
                    EqStore(@, ThreadField(t), threads.field[t], threads.other[t])]
    /\ threads' = Step(t, "ret", threads)
    /\ last' = [op |-> "thread", t |-> t, line |-> 110]
    /\ UNCHANGED <<buf, queries, conds, nconds, nor, cycle, failed, meta>>

\* return QueryCondition(_dict)
ThreadEqRet(t) ==
    /\ threads.pc[t] = "ret"
    /\ conds' = [conds EXCEPT ![t] = [src |-> "cmp", content |-> heap[threads.dict[t]],
                                       fresh |-> TRUE]]
    /\ nconds' = nconds + 1
    /\ threads' = Step(t, "init", threads)
    /\ last' = [op |-> "thread", t |-> t, line |-> 118]
    /\ UNCHANGED <<heap, buf, queries, nor, cycle, failed, meta>>

\* MongoQuery.__init__: the argument check passes; self._dict = MongoQuery._dict
ThreadInitTake(t) ==
    /\ threads.pc[t] = "init"
    /\ queries' = [queries EXCEPT ![t] = [alive |-> TRUE, ref |-> buf]]
    /\ threads' = Step(t, "reset", threads)
    /\ last' = [op |-> "thread", t |-> t, line |-> 27]
    /\ UNCHANGED <<heap, buf, conds, nconds, nor, cycle, failed, meta>>

\* MongoQuery._dict = {}
ThreadInitReset(t) ==
    /\ threads.pc[t] = "reset"
    /\ \E next \in { NewBuffer(Dicts) } :
        /\ heap' = next.heap
        /\ buf' = next.buf
    /\ threads' = Step(t, "done", threads)
    /\ last' = [op |-> "thread", t |-> t, line |-> 29]
    /\ UNCHANGED <<queries, conds, nconds, nor, cycle, failed, meta>>

-----------------------------------------------------------------------------
(* The metaclasses *)

\* MongoFilterMeta (meta.py) and MongoModelMetaclass (query.py)
Metas == {"MongoFilterMeta", "MongoModelMetaclass"}

\* the pydantic models a filter class is derived from, and the annotations
\* of their fields
Schemas == {"Dummy", "AnotherDummy", "Retyped"}
Annotations(schema) ==
    IF schema = "Dummy"
    THEN ("str_field" :> [t |-> "str"]) @@ ("int_field" :> [t |-> "int"])
         @@ ("optional_str" :> [optional |-> "str"])
    ELSE IF schema = "AnotherDummy" THEN ("another_field" :> [t |-> "str"])
    ELSE IF schema = "Retyped" THEN ("str_field" :> [t |-> "int"])
    ELSE <<>>

\* ModelField.type_: the annotation, Optional[...] unwrapped
ElementType(a) == IF "optional" \in DOMAIN a THEN a.optional ELSE a.t

\* issubclass(base, BaseModel)
IsBaseModel(base) == base \in Schemas

\* the base class tuples of the class statements
BaseLists ==
    {<<>>, <<"str">>} \cup { <<r>> : r \in Schemas }
    \cup { <<r1, r2>> : r1 \in {"Dummy"}, r2 \in {"AnotherDummy", "str"} }

\* meta.attrs[m]: the QueryFields set as attributes of the metaclass m, by
\* name, each with its field_type; meta.bound: the class statements that
\* succeeded, each with the object the metaclass returned for it
MetaInit == [attrs |-> [m \in Metas |-> <<>>], bound |-> <<>>]

\* a metaclass that does not check the base class against BaseModel
BindErrorUnchecked(bases) ==
    IF Len(bases) > 1 THEN "does not support multiple inheritance"
    ELSE IF Len(bases) < 1 THEN "requires a base class"
    ELSE "none"

\* the checks of __new__: the message of the TypeError raised, or "none"
BindError(bases) ==
    IF Len(bases) > 1 THEN "does not support multiple inheritance"
    ELSE IF Len(bases) < 1 THEN "requires a base class"
    ELSE IF ~IsBaseModel(bases[1]) THEN "must inherit from BaseModel"
    ELSE "none"

\* the loop of __new__ over base_model_cls.__fields__: setattr(cls, ...)
\* with cls the metaclass
SetQueryFields(attrs, fields) ==
    [n \in DOMAIN attrs \cup DOMAIN fields |->
        IF n \in DOMAIN fields THEN [name |-> n, field_type |-> ElementType(fields[n])]
        ELSE attrs[n]]

\* the attributes a class statement's result exposes as QueryFields
Handles(result) == meta.attrs[result.metaclass]

\* class X(*bases, metaclass=m): m.__new__(m, "X", bases, namespace)
Bind(m, bases) ==
    /\ IF BindError(bases) # "none"
       THEN /\ last' = [op |-> "bind", m |-> m, bases |-> bases,
                        error |-> [type |-> "TypeError", msg |-> BindError(bases)]]
            /\ meta' = meta
       ELSE /\ Len(meta.bound) < MaxBind
            /\ meta' = [attrs |-> [meta.attrs EXCEPT
                                      ![m] = SetQueryFields(@, Annotations(bases[1]))],
                        bound |-> Append(meta.bound,
                                         [schema |-> bases[1], result |-> [metaclass |-> m]])]
            /\ last' = [op |-> "bind", m |-> m, bases |-> bases, ret |-> [metaclass |-> m]]
    /\ UNCHANGED <<heap, buf, queries, conds, nconds, nor, cycle, failed, threads>>

-----------------------------------------------------------------------------
(* The engine *)

RECURSIVE Lists(_, _)
\* the lists of at most n operands of field f
Lists(f, n) ==
    IF n = 0 THEN {<<>>}
    ELSE Lists(f, n - 1) \cup { Append(l, v) : l \in { x \in Lists(f, n - 1) : Len(x) = n - 1 },
                                               v \in Operands(f) }

Init ==
    /\ heap = [i \in HeapIds |-> EmptyDict]
    /\ buf = 1
    /\ queries = [q \in QuerySlots |-> NoQuery]
    /\ conds = [c \in CondSlots |-> NoCond]
    /\ nconds = 0
    /\ nor = 0
    /\ cycle = CycleInit
    /\ last = [op |-> "none"]
    /\ failed = 0
    /\ threads = ThreadsInit
    /\ meta = MetaInit

\* the argument of MongoQuery(expression): the condition the expression
\* evaluated last
NewestArg == { IF conds[1].src = "none" THEN <<>> ELSE <<[c |-> 1]>> }

\* Accumulation and snapshot: comparisons on both fields, conjunction of the
\* conditions they return, and queries built one after the other while the
\* earlier ones are still held.
Next ==
    \/ \E f \in InFields : Eq(f, PyStr("a"))
    \/ \E f \in OrdFields, v \in OrdOperands : Eq(f, v)
    \/ \E f \in OrdFields, v \in OrdOperands : Gt(f, v)
    \/ \E c \in CondSlots : \E o \in CondArgs \ {[c |-> c]} : And(c, o)
    \/ \E q \in QuerySlots, args \in NewestArg : MongoQueryInit(q, args)

Spec == Init /\ [][Next]_vars

\* The comparison operators: every operator, on one expression at a time.
NextCmp ==
    \/ \E f \in Fields : \E v \in Operands(f) : Eq(f, v)
    \/ \E f \in OrdFields, v \in OrdOperands : Gt(f, v)
    \/ \E f \in OrdFields, v \in OrdOperands : Ge(f, v)
    \/ \E f \in OrdFields, v \in OrdOperands : Lt(f, v)
    \/ \E f \in OrdFields, v \in OrdOperands : Le(f, v)
    \/ \E c \in CondSlots : \E o \in CondArgs \ {[c |-> c]} : And(c, o)
    \/ \E q \in {1}, args \in NewestArg : MongoQueryInit(q, args)

SpecCmp == Init /\ [][NextCmp]_vars

\* The membership test `field in [...]` and the query built from it.
NextIn ==
    \/ \E f \in InFields : \E vals \in Lists(f, MaxConds - nconds) : In(f, vals)
    \/ \E f \in InFields : Eq(f, PyStr("a"))
    \/ \E q \in {1}, b \in BoolArgs : MongoQueryInit(q, <<b>>)
    \/ \E f \in Fields, operand \in TestedOperands : QueryFieldContains(f, operand)

SpecIn == Init /\ [][NextIn]_vars

\* Conditions: &, bool(), exists and regex_query around one comparison.
\* Python evaluates o & c with __rand__ only when o has no __and__ that
\* accepts c, that is for a boolean o.
NextCond ==
    \/ \E f \in InFields : Eq(f, PyStr("a"))
    \/ \E c \in CondSlots : \E o \in (CondArgs \ {[c |-> c]}) \cup BoolArgs : And(c, o)
    \/ \E c \in CondSlots, o \in BoolArgs : Rand(c, o)
    \/ \E c \in {1} : Bool(c)
    \/ \E a \in FieldArgs : Exists(a)
    \/ \E a \in RegexArgs, p \in Patterns : RegexQuery(a, p)
    \/ \E q \in {1}, args \in { l \in ArgLists : Len(l) = 1 \/ l[1] # l[2] } :
           MongoQueryInit(q, args)

SpecCond == Init /\ [][NextCond]_vars

\* Disjunction of queries.
NextOr ==
    \/ \E f \in InFields : Eq(f, PyStr("a"))
    \/ \E q \in QuerySlots : MongoQueryInit(q, <<>>)
    \/ \E a \in QuerySlots, b \in QuerySlots : MongoQueryOr(a, b)
    \/ \E q \in QuerySlots : MongoQueryDel(q)

SpecOr == Init /\ [][NextOr]_vars

\* Construction with arguments of any type, valid or not.
NextInit ==
    \/ \E f \in InFields : Eq(f, PyStr("a"))
    \/ \E f \in OrdFields, v \in OrdOperands : Eq(f, v)
    \/ \E q \in {1}, args \in AnyArgLists : MongoQueryInit(q, args)
    \/ MongoQueryDelFailed

SpecInit == Init /\ [][NextInit]_vars

\* Two threads, their statements interleaved.
NextThreads ==
    \E t \in Threads :
        \/ ThreadEqLoad(t)
        \/ ThreadEqGet(t)
        \/ ThreadEqSet(t)
        \/ ThreadEqRet(t)
        \/ ThreadInitTake(t)
        \/ ThreadInitReset(t)

SpecThreads == Init /\ [][NextThreads]_vars

\* Class statements with the metaclasses.
NextBind == \E m \in Metas, bases \in BaseLists : Bind(m, bases)

SpecBind == Init /\ [][NextBind]_vars

-----------------------------------------------------------------------------
(* Properties *)

\* the fields the expression compared
Compared(cyc) == { f \in Fields : cyc.regs[f] # <<>> }

\* the filter fragment value of one comparison: the operand for ==, the
\* operator mapping for an ordering operator
Fragment(r) ==
    IF r.op = "==" THEN r.v
    ELSE PyDict((CASE r.op = ">" -> "$gt" [] r.op = ">=" -> "$gte"
                   [] r.op = "<" -> "$lt" [] r.op = "<=" -> "$lte") :> r.v)

\* the name exists and regex_query are given: a QueryField's or a raw one
NameOf(a) == IF IsQueryField(a) THEN a.field ELSE a.str

\* C1: right after every Query construction the shared buffer is empty, and
\* a Query whose expression used no Condition made before the previous
\* construction holds only keys its own expression compared.
BufferIsolation ==
    last.op = "init" =>
        /\ Buffer = EmptyDict
        /\ last.cycle.shape # "shared" =>
              DOMAIN Content(last.q) \subseteq Compared(last.cycle)

\* two queries built one after the other, the second without the first's key
BufferIsolationWitness ==
    /\ last.op = "init" /\ last.q = 2 /\ last.cycle.shape = "cmps"
    /\ queries[1].alive
    /\ DOMAIN Content(1) = {"str_field"}
    /\ DOMAIN Content(2) = {"int_field"}

\* C2: a comparison, a conjunction or the construction of another Query
\* leaves the content of every Query the caller holds as it was.
SnapshotImmutable ==
    [][\A q \in QuerySlots :
          (queries[q].alive /\ ~(last'.op = "init" /\ last'.q = q))
              => (queries'[q].alive /\ Content(q)' = Content(q))]_vars

\* a Query holds its snapshot while a Condition made before it was merged
\* again and its field was folded in the next cycle
SnapshotImmutableWitness ==
    /\ queries[1].alive
    /\ Content(1) = ("str_field" :> PyStr("a"))
    /\ cycle.shape = "shared"
    /\ Buffer = ("str_field" :> PyList(<<PyStr("a"), PyStr("a")>>))

\* C3: queryA | queryB yields {"$or": [content of queryA, content of queryB]},
\* the contents being those before the operation, left operand first.
OrContent ==
    last.op = "or" =>
        Content(last.ret) = ("$or" :> PyList(<<PyDict(last.left), PyDict(last.right)>>))

\* the left operand is itself the result of an earlier |, the right one is not
OrContentWitness ==
    /\ last.op = "or"
    /\ "$or" \in DOMAIN last.left
    /\ last.right = ("str_field" :> PyStr("a"))

\* C4: queryA | queryB returns a Query that is neither operand and leaves
\* the content of both operands unchanged.
OrLeavesOperands ==
    last.op = "or" =>
        /\ last.ret \notin {last.a, last.b}
        /\ Content(last.a) = last.left
        /\ Content(last.b) = last.right

\* C5: in an expression of comparisons, the entry of a field compared twice
\* or three times is the sequence of the registered values, in order.
FoldKeepsValues ==
    cycle.shape = "cmps" =>
        \A f \in Fields :
            Len(cycle.regs[f]) >= 2 =>
                Buffer[f] = PyList([i \in DOMAIN cycle.regs[f] |-> Fragment(cycle.regs[f][i])])

\* C6: every key of every positional Condition of Query(c1, ..., cn) is a
\* key of the constructed Query.
QueryMergesArguments ==
    last.op = "init" =>
        \A i \in DOMAIN last.args :
            IsCondArg(last.args[i]) =>
                DOMAIN conds[last.args[i].c].content \subseteq DOMAIN Content(last.q)

\* C7: bool(c) is false; c & b and b & c, b a boolean, return a Condition
\* with the content of c and leave the buffer as it was.
BooleanOperand ==
    [][/\ last'.op = "bool" => last'.ret = PyBool(FALSE)
       /\ (last'.op \in {"and", "rand"} /\ ~IsCondArg(last'.o)) =>
              /\ last'.ret = conds[last'.c].content
              /\ heap'[buf'] = heap[buf]]_vars

\* True & c was evaluated for a c that differs from the non-empty buffer
BooleanOperandWitness ==
    /\ last.op = "rand" /\ last.o = [b |-> TRUE]
    /\ Buffer # EmptyDict
    /\ last.ret = conds[last.c].content
    /\ last.ret # Buffer

\* C8: exists and regex_query leave the buffer as it was and return
\* {name: {"$exists": true}} and {name: {"$regex": pattern}}, for a
\* QueryField and for a raw name, whatever the buffer holds.
ExistsRegexFrame ==
    [][/\ last'.op \in {"exists", "regex"} => heap'[buf'] = heap[buf]
       /\ (last'.op = "exists" /\ "ret" \in DOMAIN last') =>
              last'.ret = (NameOf(last'.a) :> PyDict("$exists" :> PyBool(TRUE)))
       /\ last'.op = "regex" =>
              last'.ret = (NameOf(last'.a) :> PyDict("$regex" :> PyStr(last'.pattern)))]_vars

\* exists was called with a raw name while an expression was accumulating
ExistsRegexFrameWitness ==
    /\ last.op = "exists" /\ last.a = PyStr("custom_field")
    /\ last.ret = ("custom_field" :> PyDict("$exists" :> PyBool(TRUE)))
    /\ Buffer = ("str_field" :> PyStr("a"))

\* C9: Query(cmp1 & ... & cmpn), the comparisons on pairwise distinct
\* fields, is the key-union of the comparisons' fragments.
DistinctFieldsUnion ==
    (/\ last.op = "init"
     /\ last.cycle.shape \in {"cmps", "anded"}
     /\ \A f \in Fields : Len(last.cycle.regs[f]) <= 1) =>
        Content(last.q) = [f \in Compared(last.cycle) |-> Fragment(last.cycle.regs[f][1])]

\* Query((str_field == "a") & (int_field >= 1))
DistinctFieldsUnionWitness ==
    /\ last.op = "init" /\ last.cycle.shape = "anded"
    /\ Content(last.q) = ("str_field" :> PyStr("a")) @@ ("int_field" :> PyDict("$gte" :> PyInt(1)))

\* the field and the list of the membership test a Query was built from
TestedField(cyc) == CHOOSE f \in Fields : cyc.regs[f] # <<>>

RECURSIVE DropNulls(_)
\* a list without its leading None elements
DropNulls(vals) ==
    IF vals = <<>> THEN <<>>
    ELSE IF Head(vals) = Null THEN DropNulls(Tail(vals)) ELSE vals

MembershipOnHandle ==
    last.op = "contains" =>
        IF FieldType(last.f) # "str"
        THEN "error" \in DOMAIN last /\ last.error = "TypeError"
        ELSE IF ~IsStr(last.operand)
        THEN "error" \in DOMAIN last /\ last.error = "ValueError"
        ELSE "ret" \in DOMAIN last
             /\ last.ret = (last.f :> PyDict("$regex" :> last.operand))

BindingTypeErrors ==
    [][last'.op = "bind" =>
          LET bases == last'.bases
              raised == "error" \in DOMAIN last'
          IN  /\ raised <=> ~(Len(bases) = 1 /\ bases[1] \in Schemas)
              /\ raised =>
                    /\ last'.error.type = "TypeError"
                    /\ meta' = meta
                    /\ Len(bases) >= 2 =>
                          last'.error.msg = "does not support multiple inheritance"
                    /\ Len(bases) = 0 => last'.error.msg = "requires a base class"]_vars

\* class X(str, metaclass=MongoFilterMeta) raised after a class statement
\* that succeeded
BindingTypeErrorsWitness ==
    /\ last.op = "bind" /\ last.bases = <<"str">>
    /\ last.error.msg = "must inherit from BaseModel"
    /\ Len(meta.bound) = 1
    /\ DOMAIN meta.attrs[last.m] = {"another_field"}

\* C14: every class statement that succeeded produced its own new filter
\* type, and the filter type of schema R exposes a QueryField named n
\* exactly for the fields n of R, with R's element type, whatever was bound
\* before or after.
BindingIsolation ==
    \A i \in DOMAIN meta.bound :
        /\ \A j \in DOMAIN meta.bound \ {i} : meta.bound[j].result # meta.bound[i].result
        /\ Handles(meta.bound[i].result) =
               [n \in DOMAIN Annotations(meta.bound[i].schema) |->
                   [name |-> n,
                    field_type |-> ElementType(Annotations(meta.bound[i].schema)[n])]]

\* C15: only the construction of a MongoQuery removes entries from the
\* buffer: every other event, the destruction of a query built earlier
\* included, leaves every key of the buffer in place.
OnlyConstructionClears ==
    [][last'.op # "init" => DOMAIN heap[buf] \subseteq DOMAIN heap'[buf']]_vars

\* C16: after a & b, a and b QueryConditions, the buffer has every key of a
\* and of b, with b's value on the keys of b, and its other keys are as
\* they were.
AndMergesBoth ==
    [][(last'.op = "and" /\ IsCondArg(last'.o)) =>
          LET a == conds[last'.c].content
              b == conds[last'.o.c].content
          IN  /\ DOMAIN a \cup DOMAIN b \subseteq DOMAIN heap'[buf']
              /\ \A k \in DOMAIN b : heap'[buf'][k] = b[k]
              /\ \A k \in DOMAIN heap[buf] \ (DOMAIN a \cup DOMAIN b) :
                     heap'[buf'][k] = heap[buf][k]]_vars

\* C17: a comparison whose QueryCondition was dropped contributes no key:
\* when the expression since the last reset is comparisons only, none of
\* them joined by &, and the query is built from the condition of the last
\* one, the query has no key but that comparison's field.
DiscardedContributesNothing ==
    [][(/\ last.op = "cmp"
        /\ last'.op = "init"
        /\ last'.cycle.shape = "cmps"
        /\ last'.args = <<[c |-> 1]>>) =>
          DOMAIN Resolve(heap', queries'[last'.q].ref) \subseteq {last.f}]_vars

\* C19: the QueryCondition a comparison returns has the content of the
\* whole buffer right after the comparison was registered: every field
\* compared since the last reset, not only its own.
ComparisonReturnsBuffer ==
    last.op = "cmp" =>
        /\ last.ret = Buffer
        /\ conds[1].content = Buffer
        /\ Compared(cycle) \subseteq DOMAIN last.ret

\* in (str_field == "a") & (int_field == 1) the second condition has both
ComparisonReturnsBufferWitness ==
    /\ last.op = "cmp" /\ last.f = "int_field"
    /\ last.ret = ("str_field" :> PyStr("a")) @@ ("int_field" :> PyInt(1))

\* C20: between two constructions, under comparisons and & of conditions of
\* the same cycle, every compared field stays a key of the buffer and every
\* value a comparison registered stays in the field's entry, as the entry
\* or as an element of its list.
BufferOnlyGrows ==
    cycle.shape \in {"cmps", "anded"} =>
        \A f \in Fields : \A i \in DOMAIN cycle.regs[f] :
            /\ f \in DOMAIN Buffer
            /\ \/ Buffer[f] = Fragment(cycle.regs[f][i])
               \/ IsList(Buffer[f]) /\ Fragment(cycle.regs[f][i]) \in Range(Buffer[f].list)

\* C18: when the two threads run one after the other, each query is
\* exactly its own comparison.  Nothing orders the threads: the witness is
\* an interleaving after which one query has the other thread's key and the
\* other query lacks its own.
ThreadsSerialCorrect ==
    (threads.serial /\ \A t \in Threads : threads.pc[t] = "done") =>
        \A t \in Threads : Content(t) = (ThreadField(t) :> threads.other[t])

\* both threads are done, one query holds the key of the other thread's
\* field and the other query does not hold its own
ThreadsCorrupted ==
    /\ \A t \in Threads : threads.pc[t] = "done"
    /\ \E t \in Threads :
        /\ ThreadField(Other(t)) \in DOMAIN Content(t)
        /\ ThreadField(Other(t)) \notin DOMAIN Content(Other(t))

====
